---- MODULE Spec2Model ----
EXTENDS Integers, Sequences, FiniteSets, TLC

\* A model of app.js: the poll loop (runBot), the dispatch of one unread item
\* (processMessage), the tip command (doSendTip, sendTip) and the withdraw
\* command (doWithdrawal), against a store with one connection and one
\* optional open transaction, an inbox, and the payment and rate services.
\*
\* Strings the code takes apart (bodies, tokens, usernames, addresses) are
\* sequences of one-character strings.  Amounts are integers counted in
\* units of 10^-8, the eight fractional digits toFixed(8) keeps.

\* ---------------------------------------------------------------- bounds

\* Items the inbox lists over the whole run, all fetches together.
MaxItems == 2
\* Poll cycles (runs of runBot).
MaxPolls == 2
\* Collaborator calls (a query, an HTTP request) that return an error.
MaxFaults == 1
\* Losses of the store connection while a transaction is open.
MaxReconnects == 1

\* ------------------------------------------------------- program constants

\* config.lbrycrd.txfee
TxFee == 1
\* config.redditName
RedditName == <<"u", "/", "b">>
commentKind == "t1"
privateMessageKind == "t4"

\* ---------------------------------------------------------------- strings

UpperAlpha == <<"A","B","C","D","E","F","G","H","I","J","K","L","M",
                "N","O","P","Q","R","S","T","U","V","W","X","Y","Z">>
LowerAlpha == <<"a","b","c","d","e","f","g","h","i","j","k","l","m",
                "n","o","p","q","r","s","t","u","v","w","x","y","z">>
Digits == <<"0","1","2","3","4","5","6","7","8","9">>

ToLowerChar(c) ==
    IF \E i \in 1..26 : UpperAlpha[i] = c
    THEN LowerAlpha[CHOOSE i \in 1..26 : UpperAlpha[i] = c]
    ELSE c

\* String.prototype.toLowerCase
ToLowerCase(s) == [i \in 1..Len(s) |-> ToLowerChar(s[i])]

RECURSIVE TrimLeft(_)
TrimLeft(s) ==
    IF s # <<>> /\ Head(s) = " " THEN TrimLeft(Tail(s)) ELSE s

RECURSIVE TrimRight(_)
TrimRight(s) ==
    IF s # <<>> /\ s[Len(s)] = " " THEN TrimRight(SubSeq(s, 1, Len(s) - 1)) ELSE s

\* String.prototype.trim
Trim(s) == TrimRight(TrimLeft(s))

\* String.prototype.split(' '): every separator ends a token, empty tokens kept.
RECURSIVE Split(_)
Split(s) ==
    IF \E i \in 1..Len(s) : s[i] = " "
    THEN LET i == CHOOSE j \in 1..Len(s) :
                      s[j] = " " /\ \A k \in 1..(j - 1) : s[k] # " "
         IN  <<SubSeq(s, 1, i - 1)>> \o Split(SubSeq(s, i + 1, Len(s)))
    ELSE <<s>>

\* String.prototype.split(' ', limit): the first limit tokens of the split.
SplitLimit(s, limit) ==
    LET all == Split(s)
    IN  IF Len(all) > limit THEN SubSeq(all, 1, limit) ELSE all

\* String.prototype.substring(from)
SubstringFrom(s, from) == SubSeq(s, from + 1, Len(s))

\* String.prototype.substring(0, 1)
FirstChar(s) == IF s = <<>> THEN <<>> ELSE <<s[1]>>

\* ---------------------------------------------------------------- numbers

\* A JavaScript number: NaN, or a value.
NaN == [nan |-> TRUE, v |-> 0]
Num(v) == [nan |-> FALSE, v |-> v]

IsDigit(c) == \E i \in 1..10 : Digits[i] = c
DigitVal(c) == (CHOOSE i \in 1..10 : Digits[i] = c) - 1

RECURSIVE DigitsValue(_, _)
DigitsValue(s, acc) ==
    IF s # <<>> /\ IsDigit(Head(s))
    THEN DigitsValue(Tail(s), 10 * acc + DigitVal(Head(s)))
    ELSE acc

\* parseFloat on the model's alphabet: an optional sign, then the longest
\* run of digits; NaN when no digit follows.  Whatever follows the digits
\* is dropped, as parseFloat drops it.
ParseFloat(s) ==
    LET t    == TrimLeft(s)
        neg  == t # <<>> /\ Head(t) = "-"
        sgn  == t # <<>> /\ Head(t) \in {"-", "+"}
        body == IF sgn THEN Tail(t) ELSE t
    IN  IF body = <<>> \/ ~IsDigit(Head(body))
        THEN NaN
        ELSE Num((IF neg THEN -1 ELSE 1) * DigitsValue(body, 0))

Abs(x) == IF x < 0 THEN -x ELSE x

\* n / d rounded to the nearest integer, halves away from zero: what
\* toFixed keeps of a quotient, in units of the last digit kept.
RoundDiv(n, d) ==
    LET q == (2 * Abs(n) + Abs(d)) \div (2 * Abs(d))
    IN  IF (n < 0) = (d < 0) THEN q ELSE -q

\* (amount / rate).toFixed(8), amounts in units of 10^-8
UsdToLbcAmount(amountUsd, rate) == RoundDiv(amountUsd, rate)

\* (amount * rate).toFixed(2), amounts in units of 10^-8
LbcToUsdAmount(amountLbc, rate) == RoundDiv(amountLbc * rate, 1000000) * 1000000

\* ------------------------------------------------------------ the inbox

Al == <<"a", "l">>
Bo == <<"b", "o">>
\* The name of al as the inbox reports it on their own comments.
AlAsAuthor == <<"A", "l">>
Names == {Al, Bo}
Null == <<"<", "n", "u", "l", "l", ">">>

ThingOfBo == <<"p", "1">>
ThingOfAl == <<"p", "2">>

\* The unread items the inbox can deliver: kind, data.name, data.author,
\* data.parent_id and data.body.
Messages ==
    [ m1 |-> [kind |-> commentKind, author |-> Al, parent_id |-> ThingOfBo,
              body |-> <<"$", "3", " ", "u", "/", "b">>],
      m2 |-> [kind |-> commentKind, author |-> Bo, parent_id |-> ThingOfAl,
              body |-> <<"3", " ", "l", "b", "c", " ", "u", "/", "b">>],
      m3 |-> [kind |-> privateMessageKind, author |-> Al, parent_id |-> <<>>,
              body |-> <<"w", "i", "t", "h", "d", "r", "a", "w", " ", "2", " ", "X", "1">>],
      m4 |-> [kind |-> privateMessageKind, author |-> Bo, parent_id |-> <<>>,
              body |-> <<"B", "a", "l", "a", "n", "c", "e">>],
      m5 |-> [kind |-> privateMessageKind, author |-> Al, parent_id |-> <<>>,
              body |-> <<"d", "e", "p", "o", "s", "i", "t", " ">>],
      m6 |-> [kind |-> commentKind, author |-> AlAsAuthor, parent_id |-> ThingOfAl,
              body |-> <<"$", "1", " ", "u", "/", "b">>],
      m7 |-> [kind |-> commentKind, author |-> Bo, parent_id |-> ThingOfAl,
              body |-> <<"u", "/", "b">>],
      m8 |-> [kind |-> "t3", author |-> Bo, parent_id |-> <<>>,
              body |-> <<"B", "a", "l", "a", "n", "c", "e">>] ]

MsgIds == DOMAIN Messages

\* The unread items of the inbox when the program starts: commands, or
\* items that carry no command.
Inbox == {"m1", "m2", "m3", "m4", "m5", "m6"}
PlainInbox == {"m4", "m5", "m7", "m8"}

\* The author the platform reports for a thing; Null when it lists no child.
ThingAuthor(thingId) ==
    IF thingId = ThingOfBo THEN Bo
    ELSE IF thingId = ThingOfAl THEN Al
    ELSE Null

\* response.data.lbc_usd values the rate service can answer with.
Rates == {-1, 0, 1, 7}

\* Balance of the only user the store starts with.
InitialBalances == {2, 6}

\* ------------------------------------------------------------ the store

UserKeys == {ToLowerCase(n) : n \in Names}

NoRow == [ex |-> FALSE, name |-> <<>>, balance |-> 0, addr |-> <<>>]

EmptyDB ==
    [users |-> [k \in UserKeys |-> NoRow],
     messages |-> <<>>, tips |-> <<>>, withdrawals |-> <<>>]

NoTx == [open |-> FALSE, db |-> EmptyDB]

NoCur ==
    [cmd |-> "none", msg |-> "none", sender |-> <<>>, recipient |-> <<>>,
     amount |-> 0, amountUsd |-> 0, parsedAmount |-> <<>>, address |-> <<>>,
     userId |-> <<>>, recipientId |-> <<>>, depositAddress |-> <<>>,
     txhash |-> 0, didCommit |-> FALSE, debited |-> FALSE,
     insufficient |-> FALSE, rate |-> NaN]

VARIABLES
    committed,   \* the store as every connection sees it
    tx,          \* the open transaction of the module's connection, if any
    unread,      \* items the inbox still lists as unread
    batch,       \* items of this cycle not yet completed, current one first
    pc,          \* the callback the process is waiting for
    cur,         \* the command in progress (tipdata, data, the arguments)
    replies,     \* confirmation replies posted, per item
    reads,       \* read-marks the inbox accepted, per item
    pms,         \* rejection notices delivered: <<author, template>>
    transfers,   \* outgoing transfers the payment network accepted
    addrGen,     \* addresses the payment network has generated
    polls,       \* cycles started
    listed,      \* items listed so far
    faults,      \* collaborator calls that returned an error
    reconnects,  \* connections replaced
    pre,         \* the store when the current item was handed to processMessage
    last,        \* how the latest command ended
    scan,        \* a body handed to the parsers on their own, and the result
    auth         \* the access token: its file, its issue time, the clock

vars == <<committed, tx, unread, batch, pc, cur, replies, reads, pms,
          transfers, addrGen, polls, listed, faults, reconnects, pre, last,
          scan, auth>>

ext == <<unread, replies, reads, pms, transfers, addrGen>>
hist == <<pre, listed, scan, auth>>

\* accessTokenTime before any assignment.
Unknown == -1

\* No token (null, undefined), and the token a file left by an earlier run of
\* the program holds; a token of this process carries its time of issue.
NoToken == [some |-> FALSE, issued |-> 0, own |-> FALSE]
LeftToken == [some |-> TRUE, issued |-> 0, own |-> FALSE]

\* The token state of a process that starts with no token file: runBot is
\* about to run (phase), nothing has been fetched yet (used).
NoAuth ==
    [file |-> NoToken, time |-> Unknown, now |-> 0, phase |-> "runBot",
     start |-> 0, used |-> NoToken]

NoScan ==
    [kind |-> "none", tokens |-> <<>>, parent_id |-> <<>>, act |-> "none",
     amountUsd |-> 0, amountLbc |-> 0, amount |-> 0, address |-> <<>>]

\* How a command ended: through its completion callback (err: with an
\* error) or by an exception (threw), at which call (at), what it had
\* done by then, the rate it had obtained, and how many items of the batch
\* were behind it (left).
Ended(c, err, threw, at) ==
    [msg |-> c.msg, cmd |-> c.cmd, err |-> err, threw |-> threw, at |-> at,
     didCommit |-> c.didCommit, debited |-> c.debited,
     insufficient |-> c.insufficient, rate |-> c.rate,
     left |-> IF c.msg = "none" THEN 0 ELSE Len(batch) - 1]

NoLast == Ended(NoCur, FALSE, FALSE, "none")

InitStore ==
    /\ \E b \in InitialBalances :
         committed = [EmptyDB EXCEPT !.users[ToLowerCase(Al)] =
                         [ex |-> TRUE, name |-> Al, balance |-> b, addr |-> <<>>]]
    /\ tx = NoTx
    /\ batch = <<>>
    /\ pc = "idle"
    /\ cur = NoCur
    /\ replies = [m \in MsgIds |-> 0]
    /\ reads = [m \in MsgIds |-> 0]
    /\ pms = {}
    /\ transfers = <<>>
    /\ addrGen = 0
    /\ polls = 0
    /\ listed = 0
    /\ faults = 0
    /\ reconnects = 0
    /\ pre = committed
    /\ last = NoLast
    /\ scan = NoScan

Init == InitStore /\ unread = Inbox /\ auth = NoAuth

\* ------------------------------------------------------------ parsing

Withdraw == <<"w", "i", "t", "h", "d", "r", "a", "w">>
Balance == <<"b", "a", "l", "a", "n", "c", "e">>
Deposit == <<"d", "e", "p", "o", "s", "i", "t">>
Usd == <<"u", "s", "d">>
Lbc == <<"l", "b", "c">>

Base58Alphabet ==
    {"1","2","3","4","5","6","7","8","9",
     "A","B","C","D","E","F","G","H","J","K","L","M","N","P","Q","R","S","T",
     "U","V","W","X","Y","Z",
     "a","b","c","d","e","f","g","h","i","j","k","m","n","o","p","q","r","s",
     "t","u","v","w","x","y","z"}

\* base58.decode(address) returns instead of throwing
Base58Decodes(address) ==
    /\ Len(address) >= 2
    /\ \A i \in 1..Len(address) : address[i] \in Base58Alphabet

\* What processMessage does with the trimmed body of a private message.
PrivateCommand(body) ==
    LET parts   == Split(body)
        amount  == ParseFloat(parts[2])
        address == parts[3]
        none    == [act |-> "ignore", amount |-> 0, address |-> <<>>]
    IN  IF ToLowerCase(body) = Balance THEN [none EXCEPT !.act = "balance"]
        ELSE IF ToLowerCase(body) = Deposit THEN [none EXCEPT !.act = "deposit"]
        ELSE IF Len(parts) # 3 \/ ToLowerCase(parts[1]) # Withdraw THEN none
        ELSE IF amount.nan \/ amount.v < 0
             THEN [none EXCEPT !.act = "onwithdraw.invalidamount"]
        ELSE IF amount.v <= TxFee
             THEN [none EXCEPT !.act = "onwithdraw.amountltefee"]
        ELSE IF ~Base58Decodes(address)
             THEN [none EXCEPT !.act = "onwithdraw.invalidaddress"]
        ELSE [act |-> "withdraw", amount |-> amount.v, address |-> address]

\* What doSendTip makes of the trimmed body of a comment, up to the lookup
\* of the parent's author.
TipCommand(body, parent_id) ==
    LET parts0    == SplitLimit(body, 3)
        parentId  == Trim(parent_id)
        n         == Len(parts0)
        parts     == IF FirstChar(parts0[1]) = <<"/">>
                     THEN [parts0 EXCEPT ![1] = SubstringFrom(parts0[1], 1)]
                     ELSE parts0
        nameFirst == parts[1] = RedditName
        first     == IF nameFirst THEN 2 ELSE 1
        usd2      == ParseFloat(SubstringFrom(parts[first], 1))
        amount3   == ParseFloat(parts[first])
        unit      == ToLowerCase(parts[first + 1])
        none      == [act |-> "ignore", amountUsd |-> 0, amountLbc |-> 0,
                      parsedAmount |-> <<>>]
    IN  IF \/ parentId = <<>>
           \/ n = 0
           \/ (n # 3 /\ (n = 2 /\ FirstChar(parts0[1]) # <<"$">>))
        THEN none
        ELSE IF n = 2
        THEN IF usd2.nan \/ usd2.v <= 0
             THEN [none EXCEPT !.act = "onsendtip.invalidamount"]
             ELSE [act |-> "tip", amountUsd |-> usd2.v, amountLbc |-> 0,
                   parsedAmount |-> parts[first]]
        ELSE IF n = 3
        THEN IF amount3.nan \/ amount3.v <= 0 \/ unit \notin {Usd, Lbc}
             THEN none
             ELSE [act |-> "tip",
                   amountUsd |-> IF unit = Lbc THEN 0 ELSE amount3.v,
                   amountLbc |-> IF unit = Lbc THEN amount3.v ELSE 0,
                   parsedAmount |-> parts[first] \o <<" ">> \o parts[first + 1]]
        ELSE [none EXCEPT !.act = "nocallback"]

\* ------------------------------------------------------- store operations

\* What the statements of the current connection read.
View == IF tx.open THEN tx.db ELSE committed

\* A statement on the module's connection: part of the open transaction,
\* or committed on its own when the connection has none.
Exec(newdb) ==
    IF tx.open
    THEN tx' = [open |-> TRUE, db |-> newdb] /\ UNCHANGED committed
    ELSE committed' = newdb /\ UNCHANGED tx

\* db.beginTransaction: START TRANSACTION (which first commits a transaction
\* the connection still has open).
BeginTransaction ==
    /\ committed' = (IF tx.open THEN tx.db ELSE committed)
    /\ tx' = [open |-> TRUE, db |-> committed']

\* db.commit
CommitTransaction ==
    /\ committed' = (IF tx.open THEN tx.db ELSE committed)
    /\ tx' = NoTx

\* db.rollback
RollbackTransaction ==
    /\ tx' = NoTx
    /\ UNCHANGED committed

\* The Id createOrGetUserId finds or inserts for a username.
UserIdOf(username) == ToLowerCase(username)

\* createOrGetUserId: the row selected by LOWER(Username), inserted if absent.
CreateOrGetUser(db, username) ==
    IF db.users[UserIdOf(username)].ex
    THEN db
    ELSE [db EXCEPT !.users[UserIdOf(username)] =
             [ex |-> TRUE, name |-> username, balance |-> 0, addr |-> <<>>]]

\* getBalance: the Balance of the row, 0 when there is none.
GetBalance(db, userId) ==
    IF db.users[userId].ex THEN db.users[userId].balance ELSE 0

\* UPDATE Users SET Balance = Balance + delta WHERE Id = userId
AddBalance(db, userId, delta) ==
    IF db.users[userId].ex
    THEN [db EXCEPT !.users[userId].balance = @ + delta]
    ELSE db

\* UPDATE Users SET DepositAddress = address WHERE Id = userId
SetDepositAddress(db, userId, address) ==
    IF db.users[userId].ex
    THEN [db EXCEPT !.users[userId].addr = address]
    ELSE db

\* INSERT INTO Messages
InsertMessage(db, c) ==
    [db EXCEPT !.messages = Append(@,
        [authorId |-> c.userId,
         type |-> IF Messages[c.msg].kind = privateMessageKind THEN 1 ELSE 2,
         fullId |-> c.msg])]

\* INSERT INTO Tips, MessageId being the insertId of the Messages row
InsertTip(db, c) ==
    [db EXCEPT !.tips = Append(@,
        [messageId |-> Len(db.messages), senderId |-> c.userId,
         recipientId |-> c.recipientId, amount |-> c.amount,
         amountUsd |-> c.amountUsd, parsedAmount |-> c.parsedAmount])]

\* INSERT INTO Withdrawals
InsertWithdrawal(db, c) ==
    [db EXCEPT !.withdrawals = Append(@,
        [userId |-> c.userId, txhash |-> c.txhash, amount |-> c.amount])]

\* The balance test of sendTip and doWithdrawal.
InsufficientFunds(balance, amount) ==
    balance < amount \/ (balance - amount) < 0

\* ------------------------------------------------------- control helpers

\* Finish with the batch carried on after an error.
FinishKeepGoing(c, err) ==
    /\ last' = Ended(c, err, FALSE, pc)
    /\ cur' = NoCur
    /\ batch' = Tail(batch)
    /\ pc' = IF Tail(batch) = <<>> THEN "idle" ELSE "next"

\* The completion callback of the current item (ecb of eachSeries): an error
\* ends the batch, and runBot's final callback schedules the next cycle.
Finish(c, err) ==
    /\ last' = Ended(c, err, FALSE, pc)
    /\ cur' = NoCur
    /\ IF err
       THEN batch' = <<>> /\ pc' = "idle"
       ELSE /\ batch' = Tail(batch)
            /\ pc' = IF Tail(batch) = <<>> THEN "idle" ELSE "next"

\* Abort with the rollback left out.
AbortNoRollback ==
    /\ UNCHANGED <<committed, tx>>
    /\ Finish(cur, TRUE)

\* The final callback of sendTip and doWithdrawal on an error: roll back,
\* then hand the error to the completion callback.
Abort ==
    /\ RollbackTransaction
    /\ Finish(cur, TRUE)

\* An exception that is caught and handed to the completion callback as the
\* command's error, leaving the process alive.
CrashCaught(c) ==
    /\ tx' = NoTx
    /\ Finish(c, TRUE)

\* An exception no frame catches ends the process; the server drops the
\* connection's open transaction.
Crash(c) ==
    /\ pc' = "crashed"
    /\ last' = Ended(c, FALSE, TRUE, pc)
    /\ cur' = NoCur
    /\ tx' = NoTx
    /\ UNCHANGED batch

\* sendPMUsingTemplate: reads `substitutions`, a name no scope binds (the
\* parameter is spelled substitions), so the call throws before the request.
SendPMUsingTemplate(c) == Crash(c) /\ UNCHANGED committed

Fault == faults < MaxFaults /\ faults' = faults + 1

\* A query callback of a command's waterfall: on an error the final
\* callback rolls back; otherwise the statement took effect, the command
\* record is c and the next call is under way.
QueryStep(newdb, c, nextpc) ==
    /\ \E ok \in BOOLEAN :
         IF ok
         THEN /\ Exec(newdb)
              /\ cur' = c
              /\ pc' = nextpc
              /\ UNCHANGED <<batch, last, faults>>
         ELSE Fault /\ Abort
    /\ UNCHANGED <<ext, polls, reconnects, hist>>

\* ---------------------------------------------------------------- runBot

\* The place of an item in the listing, which is ordered by age.
ListingOrder ==
    [m1 |-> 1, m2 |-> 2, m3 |-> 3, m4 |-> 4, m5 |-> 5, m6 |-> 6, m7 |-> 7,
     m8 |-> 8]

\* What one fetch of the unread listing can return: unread items in the
\* listing's order, each listed once (Listings), or possibly more than
\* once (Relistings).
Relistings ==
    {b \in UNION {[1..n -> unread] : n \in 0..(MaxItems - listed)} :
        \A i \in 1..(Len(b) - 1) : ListingOrder[b[i]] <= ListingOrder[b[i + 1]]}
Listings ==
    {b \in Relistings :
        \A i \in 1..(Len(b) - 1) : ListingOrder[b[i]] < ListingOrder[b[i + 1]]}

\* One cycle of runBot up to the start of eachSeries: the unread listing
\* arrives, or the request fails and the final callback re-arms the timer.
RunBotOn(listings) ==
    /\ pc = "idle"
    /\ polls < MaxPolls
    /\ polls' = polls + 1
    /\ \E ok \in BOOLEAN :
         IF ok
         THEN /\ \E b \in listings :
                   /\ batch' = b
                   /\ listed' = listed + Len(b)
                   /\ pc' = IF b = <<>> THEN "idle" ELSE "next"
              /\ UNCHANGED faults
         ELSE Fault /\ UNCHANGED <<batch, pc, listed>>
    /\ last' = NoLast
    /\ pre' = committed
    /\ UNCHANGED <<committed, tx, cur, ext, reconnects, scan, auth>>

\* runBot against an inbox that lists every unread item once.
RunBot == RunBotOn(Listings)

\* runBot against an inbox that may list an unread item more than once.
RunBotRelisted == RunBotOn(Relistings)

\* processMessage on the next item of the batch, up to the first call that
\* waits for a collaborator.
ProcessMessage ==
    /\ pc = "next"
    /\ LET m    == Head(batch)
           msg  == Messages[m]
           body == Trim(msg.body)
           pm   == PrivateCommand(body)
           tip  == TipCommand(body, msg.parent_id)
           c    == [NoCur EXCEPT !.msg = m, !.sender = msg.author]
       IN  /\ pre' = committed
           /\ IF msg.kind = privateMessageKind
              THEN CASE pm.act = "withdraw" ->
                          /\ cur' = [c EXCEPT !.cmd = "withdraw",
                                              !.amount = pm.amount,
                                              !.address = pm.address]
                          /\ pc' = "w_begin"
                          /\ UNCHANGED <<tx, committed, batch, last>>
                     [] pm.act = "balance" ->
                          /\ cur' = [c EXCEPT !.cmd = "balance"]
                          /\ pc' = "b_user"
                          /\ UNCHANGED <<tx, committed, batch, last>>
                     [] pm.act = "deposit" ->
                          /\ cur' = [c EXCEPT !.cmd = "deposit"]
                          /\ pc' = "d_user"
                          /\ UNCHANGED <<tx, committed, batch, last>>
                     [] pm.act = "ignore" ->
                          Finish(c, FALSE) /\ UNCHANGED <<tx, committed>>
                     [] OTHER ->
                          SendPMUsingTemplate([c EXCEPT !.cmd = pm.act])
              ELSE IF msg.kind = commentKind
              THEN CASE tip.act = "tip" ->
                          /\ cur' = [c EXCEPT !.cmd = "tip",
                                              !.amount = tip.amountLbc,
                                              !.amountUsd = tip.amountUsd,
                                              !.parsedAmount = tip.parsedAmount]
                          /\ pc' = "t_author"
                          /\ UNCHANGED <<tx, committed, batch, last>>
                     [] tip.act = "ignore" ->
                          Finish(c, FALSE) /\ UNCHANGED <<tx, committed>>
                     [] tip.act = "nocallback" ->
                          /\ pc' = "nocallback"
                          /\ cur' = c
                          /\ UNCHANGED <<tx, committed, batch, last>>
                     [] OTHER ->
                          SendPMUsingTemplate([c EXCEPT !.cmd = tip.act])
              ELSE /\ pc' = "nocallback"
                   /\ cur' = c
                   /\ UNCHANGED <<tx, committed, batch, last>>
    /\ UNCHANGED <<unread, replies, reads, pms, transfers, addrGen>>
    /\ UNCHANGED <<polls, listed, faults, reconnects, scan, auth>>

\* ------------------------------------------------------------- doSendTip

\* The parent's author arrives (getMessageAuthor): a tip to oneself ends
\* the command, otherwise the rate is requested.
TipAuthor ==
    /\ pc = "t_author"
    /\ \E ok \in BOOLEAN :
         IF ok
         THEN LET recipient == ThingAuthor(Messages[cur.msg].parent_id)
              IN  /\ IF cur.sender # recipient
                     THEN /\ cur' = [cur EXCEPT !.recipient = recipient]
                          /\ pc' = "t_convert"
                          /\ UNCHANGED <<batch, last>>
                     ELSE Finish(cur, FALSE)
                  /\ UNCHANGED faults
         ELSE Fault /\ Finish(cur, TRUE)
    /\ UNCHANGED <<committed, tx, ext, polls, reconnects, hist>>

\* The rate arrives (convertUsdToLbc, convertLbcToUsd): no usable rate is
\* an error handed to the completion callback; otherwise sendTip starts.
TipConvert ==
    /\ pc = "t_convert"
    /\ \E ok \in BOOLEAN :
         IF ok
         THEN /\ \E rate \in Rates :
                   IF rate = 0
                   THEN Finish([cur EXCEPT !.rate = Num(rate)], TRUE)
                   ELSE /\ cur' = IF cur.amountUsd > 0
                                  THEN [cur EXCEPT !.rate = Num(rate),
                                           !.amount =
                                           UsdToLbcAmount(cur.amountUsd, rate)]
                                  ELSE [cur EXCEPT !.rate = Num(rate),
                                           !.amountUsd =
                                           LbcToUsdAmount(cur.amount, rate)]
                        /\ pc' = "s_begin"
                        /\ UNCHANGED <<batch, last>>
              /\ UNCHANGED faults
         ELSE Fault /\ Finish(cur, TRUE)
    /\ UNCHANGED <<committed, tx, ext, polls, reconnects, hist>>

\* --------------------------------------------------------------- sendTip

\* TipBegin with the transaction never started.
TipBeginSkipped ==
    /\ pc = "s_begin"
    /\ pc' = "s_sender"
    /\ UNCHANGED <<committed, tx, cur, batch, last, faults>>
    /\ UNCHANGED <<ext, polls, reconnects, hist>>

\* db.beginTransaction returns.
TipBegin ==
    /\ pc = "s_begin"
    /\ \E ok \in BOOLEAN :
         IF ok
         THEN /\ BeginTransaction
              /\ pc' = "s_sender"
              /\ UNCHANGED <<cur, batch, last, faults>>
         ELSE Fault /\ Abort
    /\ UNCHANGED <<ext, polls, reconnects, hist>>

\* createOrGetUserId(sender) returns.
TipSender ==
    /\ pc = "s_sender"
    /\ QueryStep(CreateOrGetUser(View, cur.sender),
                 [cur EXCEPT !.userId = UserIdOf(cur.sender)], "s_balance")

\* getBalance(senderId) returns: the balance test.  Its rejection evaluates
\* message.data.author where no `message` is bound, which throws.
TipBalance ==
    /\ pc = "s_balance"
    /\ \E ok \in BOOLEAN :
         IF ok
         THEN /\ IF InsufficientFunds(GetBalance(View, cur.userId), cur.amount)
                 THEN /\ Crash([cur EXCEPT !.insufficient = TRUE])
                      /\ UNCHANGED committed
                 ELSE /\ pc' = "s_debit"
                      /\ UNCHANGED <<cur, batch, last, committed, tx>>
              /\ UNCHANGED faults
         ELSE Fault /\ Abort
    /\ UNCHANGED <<ext, polls, reconnects, hist>>

\* UPDATE ... Balance - amount returns; createOrGetUserId(recipient) is
\* called, which throws on a recipient that is null.
TipDebit ==
    /\ pc = "s_debit"
    /\ \E ok \in BOOLEAN :
         IF ok
         THEN /\ UNCHANGED faults
              /\ IF cur.recipient = Null
                 THEN /\ Crash([cur EXCEPT !.debited = TRUE])
                      /\ committed' = IF tx.open THEN committed
                                      ELSE AddBalance(committed, cur.userId, -cur.amount)
                 ELSE /\ Exec(AddBalance(View, cur.userId, -cur.amount))
                      /\ cur' = [cur EXCEPT !.debited = TRUE]
                      /\ pc' = "s_recipient"
                      /\ UNCHANGED <<batch, last>>
         ELSE Fault /\ Abort
    /\ UNCHANGED <<ext, polls, reconnects, hist>>

\* createOrGetUserId(recipient) returns.
TipRecipient ==
    /\ pc = "s_recipient"
    /\ QueryStep(CreateOrGetUser(View, cur.recipient),
                 [cur EXCEPT !.recipientId = UserIdOf(cur.recipient)], "s_credit")

\* UPDATE ... Balance + amount returns.
TipCredit ==
    /\ pc = "s_credit"
    /\ QueryStep(AddBalance(View, cur.recipientId, cur.amount), cur, "s_message")

\* INSERT INTO Messages returns.
TipMessage ==
    /\ pc = "s_message"
    /\ QueryStep(InsertMessage(View, cur), cur, "s_tip")

\* INSERT INTO Tips returns.
TipInsert ==
    /\ pc = "s_tip"
    /\ QueryStep(InsertTip(View, cur), cur, "s_reply")

\* replyMessageUsingTemplate('onsendtip') returns.
TipReply ==
    /\ pc = "s_reply"
    /\ \E ok \in BOOLEAN :
         IF ok
         THEN /\ replies' = [replies EXCEPT ![cur.msg] = @ + 1]
              /\ pc' = "s_mark"
              /\ UNCHANGED <<committed, tx, cur, batch, last, faults>>
         ELSE Fault /\ Abort /\ UNCHANGED replies
    /\ UNCHANGED <<unread, reads, pms, transfers, addrGen, polls, reconnects, hist>>

\* markMessageRead returns.
TipMarkRead ==
    /\ pc = "s_mark"
    /\ \E ok \in BOOLEAN :
         IF ok
         THEN /\ unread' = unread \ {cur.msg}
              /\ reads' = [reads EXCEPT ![cur.msg] = @ + 1]
              /\ pc' = "s_commit"
              /\ UNCHANGED <<committed, tx, cur, batch, last, faults>>
         ELSE Fault /\ Abort /\ UNCHANGED <<unread, reads>>
    /\ UNCHANGED <<replies, pms, transfers, addrGen, polls, reconnects, hist>>

\* db.commit returns.
TipCommit ==
    /\ pc = "s_commit"
    /\ \E ok \in BOOLEAN :
         IF ok
         THEN /\ CommitTransaction
              /\ Finish([cur EXCEPT !.didCommit = TRUE], FALSE)
              /\ UNCHANGED faults
         ELSE Fault /\ Abort
    /\ UNCHANGED <<ext, polls, reconnects, hist>>

\* ---------------------------------------------------------- doWithdrawal

\* The address getnewaddress returns on its n-th call.
GenAddress(n) == <<"g", Digits[n + 1]>>

\* db.beginTransaction returns.
WithdrawBegin ==
    /\ pc = "w_begin"
    /\ \E ok \in BOOLEAN :
         IF ok
         THEN /\ BeginTransaction
              /\ pc' = "w_user"
              /\ UNCHANGED <<cur, batch, last, faults>>
         ELSE Fault /\ Abort
    /\ UNCHANGED <<ext, polls, reconnects, hist>>

\* createOrGetUserId(author) returns.
WithdrawUser ==
    /\ pc = "w_user"
    /\ QueryStep(CreateOrGetUser(View, cur.sender),
                 [cur EXCEPT !.userId = UserIdOf(cur.sender)], "w_address")

\* SELECT DepositAddress returns (getDepositAddress): a missing address
\* is requested from the payment network, a stored one goes to the test
\* against the destination.
WithdrawAddress ==
    /\ pc = "w_address"
    /\ \E ok \in BOOLEAN :
         IF ok
         THEN LET address == IF View.users[cur.userId].ex
                             THEN View.users[cur.userId].addr ELSE <<>>
              IN  /\ UNCHANGED <<committed, faults>>
                  /\ IF Trim(address) = <<>>
                     THEN /\ pc' = "w_generate"
                          /\ UNCHANGED <<tx, cur, batch, last>>
                     ELSE IF cur.address = address
                     THEN /\ tx' = NoTx
                          /\ Finish([cur EXCEPT !.depositAddress = address], TRUE)
                     ELSE /\ cur' = [cur EXCEPT !.depositAddress = address]
                          /\ pc' = "w_balance"
                          /\ UNCHANGED <<tx, batch, last>>
         ELSE Fault /\ Abort
    /\ UNCHANGED <<ext, polls, reconnects, hist>>

\* generateDepositAddress returns.
WithdrawGenerate ==
    /\ pc = "w_generate"
    /\ \E ok \in BOOLEAN :
         IF ok
         THEN /\ addrGen' = addrGen + 1
              /\ cur' = [cur EXCEPT !.depositAddress = GenAddress(addrGen + 1)]
              /\ pc' = "w_setaddress"
              /\ UNCHANGED <<committed, tx, batch, last, faults>>
         ELSE Fault /\ Abort /\ UNCHANGED addrGen
    /\ UNCHANGED <<unread, replies, reads, pms, transfers, polls, reconnects, hist>>

\* UPDATE ... DepositAddress returns; then the test against the destination.
WithdrawSetAddress ==
    /\ pc = "w_setaddress"
    /\ \E ok \in BOOLEAN :
         IF ok
         THEN LET newdb == SetDepositAddress(View, cur.userId, cur.depositAddress)
              IN  /\ UNCHANGED faults
                  /\ IF cur.address = cur.depositAddress
                     THEN /\ committed' = IF tx.open THEN committed ELSE newdb
                          /\ tx' = NoTx
                          /\ Finish(cur, TRUE)
                     ELSE /\ Exec(newdb)
                          /\ pc' = "w_balance"
                          /\ UNCHANGED <<cur, batch, last>>
         ELSE Fault /\ Abort
    /\ UNCHANGED <<ext, polls, reconnects, hist>>

\* getBalance(userId) returns: the balance test.  Its rejection calls
\* sendPMUsingTemplate, which throws.
WithdrawBalance ==
    /\ pc = "w_balance"
    /\ \E ok \in BOOLEAN :
         IF ok
         THEN /\ IF InsufficientFunds(GetBalance(View, cur.userId), cur.amount)
                 THEN SendPMUsingTemplate([cur EXCEPT !.insufficient = TRUE])
                 ELSE /\ pc' = "w_debit"
                      /\ UNCHANGED <<cur, batch, last, committed, tx>>
              /\ UNCHANGED faults
         ELSE Fault /\ Abort
    /\ UNCHANGED <<ext, polls, reconnects, hist>>

\* UPDATE ... Balance - amount returns.
WithdrawDebit ==
    /\ pc = "w_debit"
    /\ QueryStep(AddBalance(View, cur.userId, -cur.amount),
                 [cur EXCEPT !.debited = TRUE], "w_send")

\* sendLbcToAddress returns.
WithdrawSend ==
    /\ pc = "w_send"
    /\ \E ok \in BOOLEAN :
         IF ok
         THEN /\ transfers' = Append(transfers,
                     [msg |-> cur.msg, address |-> cur.address,
                      amount |-> cur.amount, inTx |-> tx.open])
              /\ cur' = [cur EXCEPT !.txhash = Len(transfers) + 1]
              /\ pc' = "w_insert"
              /\ UNCHANGED <<committed, tx, batch, last, faults>>
         ELSE Fault /\ Abort /\ UNCHANGED transfers
    /\ UNCHANGED <<unread, replies, reads, pms, addrGen, polls, reconnects, hist>>

\* INSERT INTO Withdrawals returns.
WithdrawInsert ==
    /\ pc = "w_insert"
    /\ QueryStep(InsertWithdrawal(View, cur), cur, "w_commit")

\* db.commit returns.
WithdrawCommit ==
    /\ pc = "w_commit"
    /\ \E ok \in BOOLEAN :
         IF ok
         THEN /\ CommitTransaction
              /\ cur' = [cur EXCEPT !.didCommit = TRUE]
              /\ pc' = "w_mark"
              /\ UNCHANGED <<batch, last, faults>>
         ELSE Fault /\ Abort
    /\ UNCHANGED <<ext, polls, reconnects, hist>>

\* markMessageRead returns.
WithdrawMarkRead ==
    /\ pc = "w_mark"
    /\ \E ok \in BOOLEAN :
         IF ok
         THEN /\ unread' = unread \ {cur.msg}
              /\ reads' = [reads EXCEPT ![cur.msg] = @ + 1]
              /\ pc' = "w_reply"
              /\ UNCHANGED <<committed, tx, cur, batch, last, faults>>
         ELSE Fault /\ Abort /\ UNCHANGED <<unread, reads>>
    /\ UNCHANGED <<replies, pms, transfers, addrGen, polls, reconnects, hist>>

\* replyMessageUsingTemplate('onwithdraw') returns.
WithdrawReply ==
    /\ pc = "w_reply"
    /\ \E ok \in BOOLEAN :
         IF ok
         THEN /\ replies' = [replies EXCEPT ![cur.msg] = @ + 1]
              /\ Finish(cur, FALSE)
              /\ UNCHANGED <<committed, tx, faults>>
         ELSE Fault /\ Abort /\ UNCHANGED replies
    /\ UNCHANGED <<unread, reads, pms, transfers, addrGen, polls, reconnects, hist>>

\* ------------------------------------ doSendBalance, doSendDepositAddress

\* A query callback of a command that opens no transaction: an error goes
\* straight to the completion callback.
PlainStep(newdb, c, nextpc) ==
    /\ \E ok \in BOOLEAN :
         IF ok
         THEN /\ Exec(newdb)
              /\ cur' = c
              /\ pc' = nextpc
              /\ UNCHANGED <<batch, last, faults>>
         ELSE Fault /\ Finish(cur, TRUE) /\ UNCHANGED <<committed, tx>>
    /\ UNCHANGED <<ext, polls, reconnects, hist>>

\* An inbox call of such a command returns: the reply was posted
\* (posted) or the item marked read (marked), and the command goes on or,
\* after the last call, completes.
InboxStep(posted, marked, nextpc) ==
    /\ \E ok \in BOOLEAN :
         IF ok
         THEN /\ replies' = [replies EXCEPT ![cur.msg] = @ + (IF posted THEN 1 ELSE 0)]
              /\ reads' = [reads EXCEPT ![cur.msg] = @ + (IF marked THEN 1 ELSE 0)]
              /\ unread' = IF marked THEN unread \ {cur.msg} ELSE unread
              /\ IF nextpc = "done"
                 THEN Finish(cur, FALSE)
                 ELSE pc' = nextpc /\ UNCHANGED <<cur, batch, last>>
              /\ UNCHANGED faults
         ELSE Fault /\ Finish(cur, TRUE) /\ UNCHANGED <<replies, reads, unread>>
    /\ UNCHANGED <<committed, tx, pms, transfers, addrGen, polls, reconnects, hist>>

\* doSendBalance: createOrGetUserId(author) returns.
BalanceUser ==
    /\ pc = "b_user"
    /\ PlainStep(CreateOrGetUser(View, cur.sender),
                 [cur EXCEPT !.userId = UserIdOf(cur.sender)], "b_balance")

\* doSendBalance: getBalance returns.
BalanceGet ==
    /\ pc = "b_balance"
    /\ PlainStep(View, [cur EXCEPT !.amount = GetBalance(View, cur.userId)], "b_reply")

\* doSendBalance: replyMessageUsingTemplate('onbalance') returns.
BalanceReply ==
    /\ pc = "b_reply"
    /\ InboxStep(TRUE, FALSE, "b_mark")

\* doSendBalance: markMessageRead returns.
BalanceMarkRead ==
    /\ pc = "b_mark"
    /\ InboxStep(FALSE, TRUE, "done")

\* doSendDepositAddress: createOrGetUserId(author) returns.
DepositUser ==
    /\ pc = "d_user"
    /\ PlainStep(CreateOrGetUser(View, cur.sender),
                 [cur EXCEPT !.userId = UserIdOf(cur.sender)], "d_address")

\* getDepositAddress asking for a new address whatever is stored.
DepositAddressRenewed ==
    /\ pc = "d_address"
    /\ PlainStep(View, cur, "d_generate")

\* doSendDepositAddress: SELECT DepositAddress returns (getDepositAddress).
DepositAddress ==
    /\ pc = "d_address"
    /\ LET address == IF View.users[cur.userId].ex
                      THEN View.users[cur.userId].addr ELSE <<>>
       IN  PlainStep(View, [cur EXCEPT !.depositAddress = address],
                     IF Trim(address) = <<>> THEN "d_generate" ELSE "d_reply")

\* doSendDepositAddress: generateDepositAddress returns.
DepositGenerate ==
    /\ pc = "d_generate"
    /\ \E ok \in BOOLEAN :
         IF ok
         THEN /\ addrGen' = addrGen + 1
              /\ cur' = [cur EXCEPT !.depositAddress = GenAddress(addrGen + 1)]
              /\ pc' = "d_setaddress"
              /\ UNCHANGED <<batch, last, faults>>
         ELSE Fault /\ Finish(cur, TRUE) /\ UNCHANGED addrGen
    /\ UNCHANGED <<committed, tx, unread, replies, reads, pms, transfers>>
    /\ UNCHANGED <<polls, reconnects, hist>>

\* doSendDepositAddress: UPDATE ... DepositAddress returns.
DepositSetAddress ==
    /\ pc = "d_setaddress"
    /\ PlainStep(SetDepositAddress(View, cur.userId, cur.depositAddress), cur, "d_reply")

\* doSendDepositAddress: replyMessageUsingTemplate('ondeposit') returns.
DepositReply ==
    /\ pc = "d_reply"
    /\ InboxStep(TRUE, FALSE, "d_mark")

\* doSendDepositAddress: markMessageRead returns.
DepositMarkRead ==
    /\ pc = "d_mark"
    /\ InboxStep(FALSE, TRUE, "done")

\* ------------------------------------------------------ initSqlConnection

\* The calls during which the connection has no query pending although a
\* command may hold a transaction on it.
AwaitingHttp == {"s_reply", "s_mark", "w_generate", "w_send"}

\* The connection's 'error' handler: the connection is lost while no query
\* is pending, the server drops its transaction, and db becomes a new
\* connection, which has none.
Reconnect ==
    /\ pc \in AwaitingHttp
    /\ tx.open
    /\ reconnects < MaxReconnects
    /\ reconnects' = reconnects + 1
    /\ tx' = NoTx
    /\ UNCHANGED <<committed, batch, pc, cur, last, ext, polls, faults, hist>>

\* The steps of the commands.
Command ==
    \/ ProcessMessage
    \/ TipAuthor
    \/ TipConvert
    \/ TipBegin
    \/ TipSender
    \/ TipBalance
    \/ TipDebit
    \/ TipRecipient
    \/ TipCredit
    \/ TipMessage
    \/ TipInsert
    \/ TipReply
    \/ TipMarkRead
    \/ TipCommit
    \/ WithdrawBegin
    \/ WithdrawUser
    \/ WithdrawAddress
    \/ WithdrawGenerate
    \/ WithdrawSetAddress
    \/ WithdrawBalance
    \/ WithdrawDebit
    \/ WithdrawSend
    \/ WithdrawInsert
    \/ WithdrawCommit
    \/ WithdrawMarkRead
    \/ WithdrawReply
    \/ BalanceUser
    \/ BalanceGet
    \/ BalanceReply
    \/ BalanceMarkRead
    \/ DepositUser
    \/ DepositAddress
    \/ DepositGenerate
    \/ DepositSetAddress
    \/ DepositReply
    \/ DepositMarkRead

\* The process with a store connection that is never lost and an inbox that
\* lists every unread item once.
NextStable ==
    \/ RunBot
    \/ Command

SpecStable == Init /\ [][NextStable]_vars

\* The process in full: the connection may be lost and replaced, and the
\* inbox may list an item more than once.
Next ==
    \/ RunBotRelisted
    \/ Command
    \/ Reconnect

Spec == Init /\ [][Next]_vars

\* ------------------------------------------------- the parsers on their own

\* Tokens of a body handed to the parsers.
MaxTokens == 4

\* Tokens comments are made of: amounts with and without the dollar sign,
\* the bot's name with and without the leading slash, units, anything else.
CommentTokens ==
    { <<"$", "3">>, <<"$", "0">>, <<"3">>, RedditName, <<"/">> \o RedditName,
      <<"L", "b", "c">>, Usd, <<"x">> }

\* Tokens private messages are made of.
PrivateTokens ==
    { Withdraw, <<"W", "i", "t", "h", "d", "r", "a", "w">>, Balance, Deposit,
      <<"2">>, <<"1">>, <<"0">>, <<"-", "1">>, <<"x">>, <<"X", "1">>, <<"0", "I">> }

\* parent_id of a comment: absent, or a thing.
ParentIds == {<<>>, ThingOfBo}

\* Array.prototype.join(' '): the body whose split is the tokens.
RECURSIVE Join(_)
Join(tokens) ==
    IF Len(tokens) = 0 THEN <<>>
    ELSE IF Len(tokens) = 1 THEN tokens[1]
    ELSE tokens[1] \o <<" ">> \o Join(Tail(tokens))

TokenLists(T) == UNION {[1..n -> T] : n \in 1..MaxTokens}

\* processMessage on a comment, up to what doSendTip makes of its body.
ScanComment ==
    /\ scan = NoScan
    /\ \E tokens \in TokenLists(CommentTokens), parent_id \in ParentIds :
         LET r == TipCommand(Trim(Join(tokens)), parent_id)
         IN  scan' = [kind |-> commentKind, tokens |-> tokens,
                      parent_id |-> parent_id, act |-> r.act,
                      amountUsd |-> r.amountUsd, amountLbc |-> r.amountLbc,
                      amount |-> 0, address |-> <<>>]
    /\ UNCHANGED <<committed, tx, batch, pc, cur, last, ext, polls, listed,
                   faults, reconnects, pre, auth>>

\* processMessage on a private message, up to the call of a command.
ScanPrivate ==
    /\ scan = NoScan
    /\ \E tokens \in TokenLists(PrivateTokens) :
         LET r == PrivateCommand(Trim(Join(tokens)))
         IN  scan' = [kind |-> privateMessageKind, tokens |-> tokens,
                      parent_id |-> <<>>, act |-> r.act,
                      amountUsd |-> 0, amountLbc |-> 0,
                      amount |-> r.amount, address |-> r.address]
    /\ UNCHANGED <<committed, tx, batch, pc, cur, last, ext, polls, listed,
                   faults, reconnects, pre, auth>>

NextParse ==
    \/ ScanComment
    \/ ScanPrivate

\* The parsers read no state: one initial store is enough.
InitParse ==
    /\ Init
    /\ \A b \in InitialBalances : committed.users[ToLowerCase(Al)].balance <= b

SpecParse == InitParse /\ [][NextParse]_vars

\* ------------------------------------------------------ the access token

\* Minutes after which runBot gives a token up.
TokenLifetime == 55

\* Minutes between the end of a cycle and the next runBot.
PollDelay == 1

\* The clock stops here.
MaxClock == 60

\* Minutes a request or the rest of a cycle can take.
Waits == {1, 27}

\* The first three steps of runBot's waterfall, which run without waiting:
\* the token file is removed when no issue time is known or the issue time
\* is TokenLifetime minutes old, loadAccessToken reads the file, and either
\* the credential exchange is requested or the unread listing is requested
\* with the token read.
RunBotToken ==
    /\ auth.phase = "runBot"
    /\ LET stale == \/ auth.time = Unknown
                    \/ auth.now - auth.time >= TokenLifetime
           file  == IF stale THEN NoToken ELSE auth.file
       IN  auth' = IF file.some
                   THEN [auth EXCEPT !.file = file, !.start = auth.now,
                                     !.used = file, !.phase = "fetch"]
                   ELSE [auth EXCEPT !.file = file, !.start = auth.now,
                                     !.phase = "oauth"]
    /\ UNCHANGED <<committed, tx, batch, pc, cur, last, ext, polls, listed,
                   faults, reconnects, pre, scan>>

\* The answer to oauth's request: an error or a body that does not parse
\* ends the cycle; a parsed body sets accessTokenTime, writes the token file
\* if the body carries a token, and the unread listing is requested with
\* response.access_token, present or not.
Oauth ==
    /\ auth.phase = "oauth"
    /\ \E answer \in {"error", "token", "notoken"} :
         LET token == [some |-> TRUE, issued |-> auth.now, own |-> TRUE]
         IN  auth' = CASE answer = "error" ->
                            [auth EXCEPT !.phase = "sleep"]
                       [] answer = "token" ->
                            [auth EXCEPT !.time = auth.now, !.file = token,
                                         !.used = token, !.phase = "fetch"]
                       [] answer = "notoken" ->
                            [auth EXCEPT !.time = auth.now, !.used = NoToken,
                                         !.phase = "fetch"]
    /\ UNCHANGED <<committed, tx, batch, pc, cur, last, ext, polls, listed,
                   faults, reconnects, pre, scan>>

\* The answer to retrieveUnreadMessages and the rest of the cycle, up to the
\* final callback.
RetrieveUnreadMessages ==
    /\ auth.phase = "fetch"
    /\ auth' = [auth EXCEPT !.phase = "sleep"]
    /\ UNCHANGED <<committed, tx, batch, pc, cur, last, ext, polls, listed,
                   faults, reconnects, pre, scan>>

\* The timer of the final callback fires.
NextCycle ==
    /\ auth.phase = "sleep"
    /\ auth.now + PollDelay <= MaxClock
    /\ auth' = [auth EXCEPT !.now = auth.now + PollDelay, !.phase = "runBot"]
    /\ UNCHANGED <<committed, tx, batch, pc, cur, last, ext, polls, listed,
                   faults, reconnects, pre, scan>>

\* Time passes while a request is out or a batch is processed.
Elapse ==
    /\ auth.phase \in {"oauth", "fetch"}
    /\ \E d \in Waits :
         /\ auth.now + d <= MaxClock
         /\ auth' = [auth EXCEPT !.now = auth.now + d]
    /\ UNCHANGED <<committed, tx, batch, pc, cur, last, ext, polls, listed,
                   faults, reconnects, pre, scan>>

NextToken ==
    \/ RunBotToken
    \/ Oauth
    \/ RetrieveUnreadMessages
    \/ NextCycle
    \/ Elapse

\* The process starts with no issue time and whatever token file the last
\* run left.
InitToken ==
    /\ InitStore
    /\ \A b \in InitialBalances : committed.users[ToLowerCase(Al)].balance <= b
    /\ unread = Inbox
    /\ auth \in {NoAuth, [NoAuth EXCEPT !.file = LeftToken]}

SpecToken == InitToken /\ [][NextToken]_vars

\* ------------------------------------------------- items without a command

\* The cycles of a program whose inbox holds balance and deposit requests
\* and items that carry no command.
NextLive ==
    \/ RunBot
    \/ ProcessMessage
    \/ BalanceUser
    \/ BalanceGet
    \/ BalanceReply
    \/ BalanceMarkRead
    \/ DepositUser
    \/ DepositAddress
    \/ DepositGenerate
    \/ DepositSetAddress
    \/ DepositReply
    \/ DepositMarkRead

InitLive == InitStore /\ unread = PlainInbox /\ auth = NoAuth

\* Every call to a collaborator returns and every timer fires: a step that
\* can be taken is taken.
SpecLive == InitLive /\ [][NextLive]_vars /\ WF_vars(NextLive)

\* ------------------------------------------------------------- properties

RECURSIVE SumOver(_, _)
SumOver(S, db) ==
    IF S = {} THEN 0
    ELSE LET k == CHOOSE x \in S : TRUE
         IN  db.users[k].balance + SumOver(S \ {k}, db)

SumBalances(db) == SumOver(UserKeys, db)

\* The Tips rows whose Messages row is item m, and the Messages rows of m.
TipRowsFor(db, m) ==
    {i \in 1..Len(db.tips) : db.messages[db.tips[i].messageId].fullId = m}
MessageRowsFor(db, m) ==
    {i \in 1..Len(db.messages) : db.messages[i].fullId = m}

\* The Withdrawals rows of the transfers made for item m.
WithdrawalRowsFor(db, m) ==
    {i \in 1..Len(db.withdrawals) :
        /\ db.withdrawals[i].txhash \in 1..Len(transfers)
        /\ transfers[db.withdrawals[i].txhash].msg = m}

IsTipItem(m) ==
    /\ Messages[m].kind = commentKind
    /\ TipCommand(Trim(Messages[m].body), Messages[m].parent_id).act = "tip"
IsWithdrawItem(m) ==
    /\ Messages[m].kind = privateMessageKind
    /\ PrivateCommand(Trim(Messages[m].body)).act = "withdraw"

\* The ledger mutation of item m is committed.
LedgerCommitted(m) ==
    IF IsTipItem(m) THEN TipRowsFor(committed, m) # {}
    ELSE WithdrawalRowsFor(committed, m) # {}

InsufficientNotices == {"onsendtip.insufficientfunds", "onwithdraw.insufficientfunds"}

\* The store after the whole of tip c, and nothing else, took effect on db:
\* both user rows present, the sender debited and the recipient credited by
\* c.amount, one Messages row and one Tips row referencing it.
TipApplied(db, c) ==
    LET s == ToLowerCase(c.sender)
        r == ToLowerCase(c.recipient)
        row(k) == IF db.users[k].ex THEN db.users[k]
                  ELSE [ex |-> TRUE, name |-> IF k = s THEN c.sender ELSE c.recipient,
                        balance |-> 0, addr |-> <<>>]
        delta(k) == (IF k = r THEN c.amount ELSE 0) - (IF k = s THEN c.amount ELSE 0)
    IN  [users |-> [k \in UserKeys |->
                       IF k \in {s, r}
                       THEN [row(k) EXCEPT !.balance = @ + delta(k)]
                       ELSE db.users[k]],
         messages |-> Append(db.messages, [authorId |-> s, type |-> 2, fullId |-> c.msg]),
         tips |-> Append(db.tips,
                     [messageId |-> Len(db.messages) + 1, senderId |-> s,
                      recipientId |-> r, amount |-> c.amount,
                      amountUsd |-> c.amountUsd, parsedAmount |-> c.parsedAmount]),
         withdrawals |-> db.withdrawals]

\* C1 (as claimed): in every reachable state every user's committed balance
\* is >= 0.
CE_C1 ==
    \A k \in UserKeys : committed.users[k].balance >= 0

\* C2: every step of a tip command either leaves the committed store as it
\* was or commits the whole tip at once (sender debit, recipient credit of
\* the same amount, the Messages row and the Tips row); the sum of the
\* committed balances is the same before and after every such step; and no
\* step of any other command changes the Tips table.
Thm_C2 ==
    [][ /\ cur.cmd = "tip" =>
             \/ committed' = committed
             \/ committed' = TipApplied(committed, cur)
        /\ cur.cmd = "tip" => SumBalances(committed') = SumBalances(committed)
        /\ cur.cmd # "tip" => committed'.tips = committed.tips ]_vars

\* A tip has just committed, creating the recipient's row.
Wit_C2 ==
    /\ last.cmd = "tip" /\ last.didCommit /\ ~last.err
    /\ TipRowsFor(committed, last.msg) # {}
    /\ committed.users[ToLowerCase(Bo)].ex /\ ~pre.users[ToLowerCase(Bo)].ex

\* C3 (as claimed): at most one Tips row is ever committed for one inbound
\* item, however often the inbox lists it.
CE_C3 ==
    \A m \in MsgIds : Cardinality(TipRowsFor(committed, m)) <= 1

\* C4: when a tip's amount exceeds the sender's balance, the committed
\* store after the command is the store before it: no balance changed, no
\* Tips, Messages or Users row added, and no transaction is left open.
Thm_C4 ==
    (last.cmd = "tip" /\ last.insufficient) => (committed = pre /\ ~tx.open)

\* A tip by a sender the store did not know was rejected for insufficient
\* funds (its Users row had been inserted inside the transaction).
Wit_C4 ==
    /\ last.cmd = "tip" /\ last.insufficient /\ last.at = "s_balance"
    /\ last.msg = "m2"
    /\ ~committed.users[ToLowerCase(Bo)].ex

\* C5 (as claimed): a tip or withdraw that ended on the insufficient-funds
\* branch has sent a rejection notice to the author and ended through its
\* completion callback, with the rejection as the error.
CE_C5 ==
    last.insufficient =>
        /\ \E t \in InsufficientNotices : <<Messages[last.msg].author, t>> \in pms
        /\ last.err
        /\ ~last.threw

\* C6 (as claimed): the confirmation reply of a tip is posted only when the
\* tip is committed: no state has a reply posted for an item whose Tips row
\* is not committed.
CE_C6 ==
    \A m \in MsgIds :
        (IsTipItem(m) /\ replies[m] > 0) => TipRowsFor(committed, m) # {}

\* C7 (as claimed): a tip or withdraw item is marked read only when its
\* ledger transaction is committed.
CE_C7 ==
    \A m \in MsgIds :
        ((IsTipItem(m) \/ IsWithdrawItem(m)) /\ reads[m] > 0) => LedgerCommitted(m)

\* C8 (as claimed): a tip or withdraw that ended with an error before its
\* commit succeeded left nothing committed, no transaction open, and its
\* item unread.
CE_C8 ==
    (last.cmd \in {"tip", "withdraw"} /\ last.err /\ ~last.didCommit) =>
        /\ committed = pre
        /\ ~tx.open
        /\ last.msg \in unread

\* C9 (as claimed): an item with a committed tip has exactly one Tips row
\* and one Messages row, one confirmation reply and one read-mark, all
\* attempts counted.
CE_C9 ==
    \A m \in MsgIds :
        TipRowsFor(committed, m) # {} =>
            /\ Cardinality(TipRowsFor(committed, m)) = 1
            /\ Cardinality(MessageRowsFor(committed, m)) = 1
            /\ replies[m] = 1
            /\ reads[m] = 1

\* C10 (as claimed): a withdraw whose transfer call failed after the debit
\* was applied leaves the user's committed balance at its value before the
\* command, no Withdrawals row committed and no transaction open.
CE_C10 ==
    (last.cmd = "withdraw" /\ last.err /\ last.at = "w_send" /\ last.debited) =>
        /\ committed.users[ToLowerCase(Messages[last.msg].author)].balance
             = pre.users[ToLowerCase(Messages[last.msg].author)].balance
        /\ committed.withdrawals = pre.withdrawals
        /\ ~tx.open

\* The transfers the payment network accepted for item m.
TransfersFor(m) ==
    {i \in 1..Len(transfers) : transfers[i].msg = m}

\* C11 (as claimed): whatever single step fails and however often the item
\* is polled again, one withdraw item has at most one accepted outgoing
\* transfer and at most one committed Withdrawals row (one committed debit).
CE_C11 ==
    \A m \in MsgIds :
        /\ Cardinality(TransfersFor(m)) <= 1
        /\ Cardinality(WithdrawalRowsFor(committed, m)) <= 1

\* C12 (as claimed): an item rejected as Ignore or for insufficient funds,
\* with items of the batch behind it, ends through its completion callback
\* without an error, so that eachSeries goes on to the next item; the
\* process does not stop there.
CE_C12 ==
    (/\ last.left > 0
     /\ \/ last.insufficient
        \/ (last.cmd = "none" /\ last.msg # "none")) =>
        (~last.err /\ ~last.threw /\ pc # "crashed")

\* C13 (as claimed): a private message of three tokens whose first is
\* 'withdraw' in any case is rejected as invalid amount when the amount does
\* not parse or is <= 0, else as amount <= fee, else as invalid address when
\* the address does not decode, and is a withdrawal otherwise; every other
\* body than 'balance' and 'deposit' is ignored.
CE_C13 ==
    scan.kind = privateMessageKind =>
        LET t      == scan.tokens
            amount == ParseFloat(t[2])
        IN  IF Len(t) = 3 /\ ToLowerCase(t[1]) = Withdraw
            THEN scan.act =
                   (IF amount.nan \/ amount.v <= 0 THEN "onwithdraw.invalidamount"
                    ELSE IF amount.v <= TxFee THEN "onwithdraw.amountltefee"
                    ELSE IF ~Base58Decodes(t[3]) THEN "onwithdraw.invalidaddress"
                    ELSE "withdraw")
            ELSE IF Len(t) = 1 /\ ToLowerCase(t[1]) \in {Balance, Deposit}
            THEN scan.act \in {"balance", "deposit"}
            ELSE scan.act = "ignore"

\* The two-token bodies of a fiat tip of 3: the amount first, the bot's name
\* first, and the bot's name first with a leading slash.
FiatTipForms ==
    { << <<"$", "3">>, RedditName >>,
      << RedditName, <<"$", "3">> >>,
      << <<"/">> \o RedditName, <<"$", "3">> >> }

\* C14 (as claimed): on a comment with a parent, each two-token form of a
\* fiat tip of 3 is parsed as a tip of 3 USD, wherever the bot's name stands.
CE_C14 ==
    (/\ scan.kind = commentKind
     /\ Trim(scan.parent_id) # <<>>
     /\ scan.tokens \in FiatTipForms) =>
        (scan.act = "tip" /\ scan.amountUsd = 3 /\ scan.amountLbc = 0)

\* C15 (as claimed): a comment whose body has one token, or four or more,
\* or whose parent reference is empty, is ignored: the item completes at
\* once, without a lookup of the parent's author.
CE_C15 ==
    (/\ scan.kind = commentKind
     /\ \/ Len(scan.tokens) \notin {2, 3}
        \/ Trim(scan.parent_id) = <<>>) =>
        scan.act = "ignore"

\* C16 (as claimed): no committed Tips row has the same user as sender and
\* as recipient.
CE_C16 ==
    \A i \in 1..Len(committed.tips) :
        committed.tips[i].senderId # committed.tips[i].recipientId

\* C17 (as claimed): a tip goes on after its conversion (to sendTip, and
\* from there to the debit, the credit and the Tips row) only with a rate
\* that is positive; on a zero or negative rate the conversion returns an
\* error and the command ends there.
CE_C17 ==
    (cur.cmd = "tip" /\ ~cur.rate.nan) => cur.rate.v > 0

\* C18: a command starts only from the head of the batch while no command
\* is in progress; the command that completes is the head of the batch, and
\* the batch then loses that item, or, on an error, is given up with the
\* process back at the poll; the batch changes in no other way; and a poll
\* cycle starts only when the process is idle with no batch and no command.
Thm_C18 ==
    [][ /\ (cur.msg = "none" /\ cur'.msg # "none") =>
               (pc = "next" /\ batch # <<>> /\ cur'.msg = Head(batch) /\ batch' = batch)
        /\ cur'.msg # "none" => (batch' # <<>> /\ cur'.msg = Head(batch'))
        /\ (last' # last /\ last'.msg # "none") =>
               /\ batch # <<>>
               /\ last'.msg = Head(batch)
               /\ cur' = NoCur
               /\ IF last'.threw THEN pc' = "crashed"
                  ELSE IF last'.err THEN batch' = <<>> /\ pc' = "idle"
                  ELSE batch' = Tail(batch)
        /\ batch' # batch =>
               IF batch = <<>>
               THEN polls' # polls
               ELSE batch' = Tail(batch) \/ batch' = <<>>
        /\ polls' # polls => (pc = "idle" /\ batch = <<>> /\ cur = NoCur) ]_vars

\* The first of two items fetched in the first cycle ended with an error,
\* and the process is back at the poll with the second item not handled.
Wit_C18 ==
    /\ polls = 1 /\ listed = 2
    /\ last.err /\ last.left = 1
    /\ pc = "idle" /\ batch = <<>> /\ cur = NoCur

\* C19 (as claimed): a tip or withdraw whose ledger mutation is committed
\* was acknowledged before, by a read-mark and by a confirmation reply.
CE_C19 ==
    \A m \in MsgIds :
        ((IsTipItem(m) \/ IsWithdrawItem(m)) /\ LedgerCommitted(m)) =>
            (reads[m] > 0 /\ replies[m] > 0)

\* C20 (as claimed): the transfer is requested (sendLbcToAddress is called)
\* only with the withdraw's transaction open, the debit applied in it and
\* not committed, a balance before the debit that covered the amount, and
\* a destination other than the user's own deposit address.
CE_C20 ==
    [][ (pc # "w_send" /\ pc' = "w_send") =>
            /\ tx.open /\ tx'.open
            /\ cur'.debited /\ ~cur'.didCommit
            /\ GetBalance(View, cur.userId) >= cur.amount
            /\ View.users[cur.userId].addr # cur.address ]_vars


\* C21: when the connection is replaced while a tip or withdraw unit of work
\* is open, the command still commits as a whole or not at all: while the
\* command has not committed, the committed data are those of its start, and
\* a command that has committed (and so goes on to report success) has
\* committed its row together with its debit.
WholeEffect(m, cmd) ==
    IF cmd = "tip"
    THEN Len(committed.tips) = Len(pre.tips) + 1
    ELSE LET u == UserIdOf(Messages[m].author)
             a == PrivateCommand(Trim(Messages[m].body)).amount
         IN  /\ Len(committed.withdrawals) = Len(pre.withdrawals) + 1
             /\ GetBalance(committed, u) = GetBalance(pre, u) - a

CE_C21 ==
    /\ (cur.cmd \in {"tip", "withdraw"} /\ ~cur.didCommit) => committed = pre
    /\ (cur.cmd \in {"tip", "withdraw"} /\ cur.didCommit) =>
           WholeEffect(cur.msg, cur.cmd)
    /\ (cur = NoCur /\ last.cmd \in {"tip", "withdraw"}) =>
           IF last.didCommit
           THEN WholeEffect(last.msg, last.cmd)
           ELSE committed = pre

\* C22: whenever the unread listing is requested, the token sent with the
\* request came out of a credential exchange of this process, less than
\* TokenLifetime minutes before the cycle started or during the cycle.
CE_C22 ==
    auth.phase = "fetch" =>
        /\ auth.used.some
        /\ auth.used.own
        /\ auth.start - auth.used.issued < TokenLifetime

\* C23: a deposit address is assigned once.  The payment network is asked
\* for an address only for a user with no address stored; an address that is
\* committed for a user is never replaced or removed; and the address a
\* deposit reply reports is the one committed for the author, so it does not
\* change afterwards either.
Thm_C23 ==
    [][ /\ \A u \in UserKeys :
             Trim(committed.users[u].addr) # <<>> =>
                 committed'.users[u].addr = committed.users[u].addr
        /\ (pc' \in {"w_generate", "d_generate"} /\ pc' # pc) =>
               /\ Trim(View.users[cur.userId].addr) = <<>>
               /\ Trim(committed.users[cur.userId].addr) = <<>>
        /\ (pc = "d_reply" /\ replies' # replies) =>
               /\ Trim(cur.depositAddress) # <<>>
               /\ committed.users[cur.userId].addr = cur.depositAddress
      ]_vars

\* C23 (witness): a deposit command reported an address in one cycle, a
\* withdraw of the same user was rolled back in the next, and the address
\* committed is still the first one generated.
Wit_C23 ==
    /\ polls = 2
    /\ replies["m5"] = 1
    /\ last.cmd = "withdraw" /\ last.err /\ last.debited /\ ~last.didCommit
    /\ addrGen = 1
    /\ committed.users[UserIdOf(Al)].addr = GenAddress(1)

\* C24: every item handed to processMessage has its completion callback
\* invoked in the end, whatever its kind and body, so that the batch ends
\* and the next cycle is scheduled.
CE_C24 ==
    \A m \in MsgIds :
        (pc = "next" /\ Head(batch) = m) ~>
            (last.msg = m /\ cur = NoCur /\ pc \in {"next", "idle"})

\* The latest command ended on a branch that rejects the item with a notice.
RejectedLast ==
    \/ last.insufficient
    \/ last.cmd \in {"onwithdraw.invalidamount", "onwithdraw.amountltefee",
                     "onwithdraw.invalidaddress", "onsendtip.invalidamount"}

====
